---- MODULE Spec2Model ----
(***************************************************************************)
(* A model of JSONW (jsonw.c): a zero-copy JSON validator and navigator.   *)
(*                                                                         *)
(* The input text is a sequence of byte values (ASCII codes); the byte at  *)
(* position Len(t)+1 is the NUL terminator.  A cursor (char *json) is a    *)
(* position 1..Len(t)+1 of the text, and NULL (0) is the failure cursor.   *)
(* A combinator with an out-parameter is an operator returning a record    *)
(*   [ret |-> returned cursor, wrote |-> whether it stored through the     *)
(*    out-parameter, val |-> the value it stored]                          *)
(* and the calling action applies the store to the caller's variable.      *)
(***************************************************************************)
EXTENDS Integers, Sequences, FiniteSets, TLC

VARIABLES text,   \* the caller's NUL-terminated buffer (without the NUL)
          op,     \* the operation that was called ("none" before the call)
          json,   \* the cursor passed to the operation
          arg,    \* the other scalar argument (key, literal, index, capacity)
          prev,   \* the caller's out-parameter object before the call
          out,    \* the caller's out-parameter object after the call
          ret     \* the value the operation returned

vars == <<text, op, json, arg, prev, out, ret>>

----------------------------------------------------------------------------
(* Bytes *)

NULL == 0

NUL == 0

U16 == 65536

Read(t, p) ==
  IF p \in 1..Len(t) THEN t[p]
  ELSE IF p = Len(t) + 1 THEN NUL
  ELSE -1   \* outside the buffer: equal to no byte the code compares with

isdigit(c) == c \in 48..57

isxdigit(c) == c \in 48..57 \/ c \in 97..102 \/ c \in 65..70

tolower(c) == IF c \in 65..90 THEN c + 32 ELSE c

WsChars == {32, 9, 10, 13}

Fail == [ret |-> NULL, wrote |-> FALSE, val |-> 0]

\* the value of a local, computed once: Only({f(v) : v \in {e}}) is f(e)
Only(S) == CHOOSE x \in S : TRUE

----------------------------------------------------------------------------
(* Basic parsers *)

jsonw_litchr(chr, t, j) ==
  IF j # NULL /\ Read(t, j) = chr THEN j + 1 ELSE NULL

jsonw_litstr(str, t, j) ==
  IF j # NULL /\ \A k \in 1..Len(str) : Read(t, j + k - 1) = str[k]
  THEN j + Len(str)
  ELSE NULL

RECURSIVE jsonw_ws(_, _)
jsonw_ws(t, j) ==
  IF j # NULL /\ Read(t, j) # NUL /\ Read(t, j) \in WsChars
  THEN jsonw_ws(t, j + 1)
  ELSE j

WSCHRWS(chr, t, j) == jsonw_ws(t, jsonw_litchr(chr, t, jsonw_ws(t, j)))

jsonw_beginarr(t, j) == WSCHRWS(91, t, j)
jsonw_endarr(t, j) == WSCHRWS(93, t, j)
jsonw_beginobj(t, j) == WSCHRWS(123, t, j)
jsonw_endobj(t, j) == WSCHRWS(125, t, j)
jsonw_namesep(t, j) == WSCHRWS(58, t, j)
jsonw_valuesep(t, j) == WSCHRWS(44, t, j)
jsonw_beginstr(t, j) == jsonw_litchr(34, t, j)
jsonw_endstr(t, j) == jsonw_litchr(34, t, j)

----------------------------------------------------------------------------
(* Values *)

JSONW_NULL == 0
JSONW_BOOLEAN == 1
JSONW_NUMBER == 2
JSONW_STRING == 3
JSONW_ARRAY == 4
JSONW_OBJECT == 5

jsonw_null(t, j) == jsonw_litstr(<<110, 117, 108, 108>>, t, j)

jsonw_boolean(t, j) ==
  LET jt == jsonw_litstr(<<116, 114, 117, 101>>, t, j)
      jf == jsonw_litstr(<<102, 97, 108, 115, 101>>, t, j)
  IN IF jt # NULL THEN [ret |-> jt, wrote |-> TRUE, val |-> TRUE]
     ELSE IF jf # NULL THEN [ret |-> jf, wrote |-> TRUE, val |-> FALSE]
     ELSE Fail

(* A double is modelled as an exact decimal: m * 10^x.  steps counts the   *)
(* multiplications and divisions by 10 of the two scaling loops.           *)
Mul10(v) == [m |-> v.m, x |-> v.x + 1, steps |-> v.steps + 1]

Div10(v) == [m |-> v.m, x |-> v.x - 1, steps |-> v.steps + 1]

ToShort(e) == IF e >= U16 \div 2 THEN e - U16 ELSE e

RECURSIVE DigitEnd(_, _)
DigitEnd(t, j) == IF isdigit(Read(t, j)) THEN DigitEnd(t, j + 1) ELSE j

\* LVALUE *= 10, LVALUE += *json - '0' over the digits at b..e-1 (a double)
RECURSIVE DigitsDouble(_, _, _, _)
DigitsDouble(t, b, e, acc) ==
  IF b >= e THEN acc
  ELSE DigitsDouble(t, b + 1, e, acc * 10 + (Read(t, b) - 48))

\* the same for an unsigned short lvalue
RECURSIVE DigitsUShort(_, _, _, _)
DigitsUShort(t, b, e, acc) ==
  IF b >= e THEN acc
  ELSE DigitsUShort(t, b + 1, e, (((acc * 10) % U16) + (Read(t, b) - 48)) % U16)

RECURSIVE ScaleUp(_, _)
ScaleUp(v, e) ==
  IF ToShort(e) > 0 THEN ScaleUp(Mul10(v), (e - 1) % U16) ELSE [v |-> v, e |-> e]

RECURSIVE ScaleDown(_, _)
ScaleDown(v, e) ==
  IF ToShort(e) < 0 THEN ScaleDown(Div10(v), (e + 1) % U16) ELSE [v |-> v, e |-> e]

\* the integer part: [ok, j, sig]
NumberInt(t, j) ==
  IF Read(t, j) = 48 THEN [ok |-> TRUE, j |-> j + 1, sig |-> 0]
  ELSE IF ~isdigit(Read(t, j)) THEN [ok |-> FALSE, j |-> j, sig |-> 0]
  ELSE LET e == DigitEnd(t, j)
       IN [ok |-> TRUE, j |-> e, sig |-> DigitsDouble(t, j, e, 0)]

\* the optional fraction: [ok, j, sig, shift]
NumberFrac(t, j, sig) ==
  IF Read(t, j) = 46
  THEN IF ~isdigit(Read(t, j + 1))
       THEN [ok |-> FALSE, j |-> j + 1, sig |-> sig, shift |-> 0]
       ELSE LET e == DigitEnd(t, j + 1)
            IN [ok |-> TRUE, j |-> e, sig |-> DigitsDouble(t, j + 1, e, sig),
                shift |-> (e - (j + 1)) % U16]
  ELSE [ok |-> TRUE, j |-> j, sig |-> sig, shift |-> 0]

\* NumberExp without `exponent *= sign`
NumberExpUnsigned(t, j) ==
  IF Read(t, j) = 101 \/ Read(t, j) = 69
  THEN LET j1 == j + 1
           j2 == IF Read(t, j1) = 45 \/ Read(t, j1) = 43 THEN j1 + 1 ELSE j1
       IN IF ~isdigit(Read(t, j2))
          THEN [ok |-> FALSE, j |-> j2, exponent |-> 0]
          ELSE LET e == DigitEnd(t, j2)
               IN [ok |-> TRUE, j |-> e,
                   exponent |-> DigitsUShort(t, j2, e, 0)]
  ELSE [ok |-> TRUE, j |-> j, exponent |-> 0]

\* the optional exponent: [ok, j, exponent]
NumberExp(t, j) ==
  IF Read(t, j) = 101 \/ Read(t, j) = 69
  THEN LET j1 == j + 1
           sign == IF Read(t, j1) = 45 THEN -1 ELSE 1
           j2 == IF Read(t, j1) = 45 \/ Read(t, j1) = 43 THEN j1 + 1 ELSE j1
       IN IF ~isdigit(Read(t, j2))
          THEN [ok |-> FALSE, j |-> j2, exponent |-> 0]
          ELSE LET e == DigitEnd(t, j2)
               IN [ok |-> TRUE, j |-> e,
                   exponent |-> (DigitsUShort(t, j2, e, 0) * sign) % U16]
  ELSE [ok |-> TRUE, j |-> j, exponent |-> 0]

jsonw_number(t, j) ==
  IF j = NULL THEN Fail
  ELSE
    LET neg == Read(t, j) = 45
        sign == IF neg THEN -1 ELSE 1
        ip == NumberInt(t, IF neg THEN j + 1 ELSE j)
    IN IF ~ip.ok THEN Fail
       ELSE
         LET fp == NumberFrac(t, ip.j, ip.sig)
         IN IF ~fp.ok THEN Fail
            ELSE
              LET ep == NumberExp(t, fp.j)
              IN IF ~ep.ok THEN Fail
                 ELSE
                   LET exponent == (ep.exponent - fp.shift) % U16
                       v0 == [m |-> fp.sig * sign, x |-> 0, steps |-> 0]
                       up == ScaleUp(v0, exponent)
                       dn == ScaleDown(up.v, up.e)
                   IN [ret |-> ep.j, wrote |-> TRUE, val |-> dn.v]

\* codepoint <<= 4, codepoint |= digit, four times; NULL on a non-hex byte
RECURSIVE HexDigits(_, _, _, _)
HexDigits(t, j, i, codepoint) ==
  IF i >= 4 THEN [ok |-> TRUE, j |-> j, codepoint |-> codepoint]
  ELSE
    LET c == Read(t, j)
        cp == (codepoint * 16) % U16
    IN IF isdigit(c) THEN HexDigits(t, j + 1, i + 1, cp + (c - 48))
       ELSE IF isxdigit(c) THEN HexDigits(t, j + 1, i + 1, cp + (tolower(c) - 97 + 10))
       ELSE [ok |-> FALSE, j |-> j, codepoint |-> cp]

\* jsonw_character passing an unknown escape byte through instead of failing
jsonw_character_AnyEscape(t, j) ==
  IF j = NULL THEN Fail
  ELSE IF Read(t, j) = 92
  THEN LET c == Read(t, j + 1)
           j2 == j + 2
       IN IF c = 98 THEN [ret |-> j2, wrote |-> TRUE, val |-> 8]
          ELSE IF c = 102 THEN [ret |-> j2, wrote |-> TRUE, val |-> 12]
          ELSE IF c = 110 THEN [ret |-> j2, wrote |-> TRUE, val |-> 10]
          ELSE IF c = 114 THEN [ret |-> j2, wrote |-> TRUE, val |-> 13]
          ELSE IF c = 116 THEN [ret |-> j2, wrote |-> TRUE, val |-> 9]
          ELSE IF c = 117
          THEN LET h == HexDigits(t, j2, 0, 0)
               IN IF ~h.ok THEN Fail
                  ELSE [ret |-> h.j, wrote |-> TRUE,
                        val |-> IF h.codepoint <= 127 THEN h.codepoint ELSE NUL]
          ELSE [ret |-> j2, wrote |-> TRUE, val |-> c]
  ELSE IF Read(t, j) >= 32 /\ Read(t, j) # 34
  THEN [ret |-> j + 1, wrote |-> TRUE, val |-> Read(t, j)]
  ELSE Fail

jsonw_character(t, j) ==
  IF j = NULL THEN Fail
  ELSE IF Read(t, j) = 92
  THEN LET c == Read(t, j + 1)
           j2 == j + 2
       IN IF c = 34 \/ c = 92 \/ c = 47 THEN [ret |-> j2, wrote |-> TRUE, val |-> c]
          ELSE IF c = 98 THEN [ret |-> j2, wrote |-> TRUE, val |-> 8]
          ELSE IF c = 102 THEN [ret |-> j2, wrote |-> TRUE, val |-> 12]
          ELSE IF c = 110 THEN [ret |-> j2, wrote |-> TRUE, val |-> 10]
          ELSE IF c = 114 THEN [ret |-> j2, wrote |-> TRUE, val |-> 13]
          ELSE IF c = 116 THEN [ret |-> j2, wrote |-> TRUE, val |-> 9]
          ELSE IF c = 117
          THEN LET h == HexDigits(t, j2, 0, 0)
               IN IF ~h.ok THEN Fail
                  ELSE [ret |-> h.j, wrote |-> TRUE,
                        val |-> IF h.codepoint <= 127 THEN h.codepoint ELSE NUL]
          ELSE Fail
  ELSE IF Read(t, j) >= 32 /\ Read(t, j) # 34
  THEN [ret |-> j + 1, wrote |-> TRUE, val |-> Read(t, j)]
  ELSE Fail

\* for (length = 0; j = jsonw_character(NULL, j); json = j) length++;
RECURSIVE StringLoop(_, _, _)
StringLoop(t, j, length) ==
  LET c == jsonw_character(t, j)
  IN IF c.ret # NULL THEN StringLoop(t, c.ret, length + 1)
     ELSE [json |-> j, length |-> length]

\* jsonw_string storing the length before it has seen the closing quote
jsonw_string_EarlyStore(t, j) ==
  LET b == jsonw_beginstr(t, j)
      l == StringLoop(t, b, 0)
      e == jsonw_endstr(t, l.json)
  IN [ret |-> e, wrote |-> b # NULL, val |-> l.length]

jsonw_string(t, j) ==
  LET b == jsonw_beginstr(t, j)
      l == StringLoop(t, b, 0)
      e == jsonw_endstr(t, l.json)
  IN IF e # NULL THEN [ret |-> e, wrote |-> TRUE, val |-> l.length] ELSE Fail

jsonw_name(t, j) == jsonw_namesep(t, jsonw_string(t, j).ret)

RECURSIVE jsonw_value(_, _)
RECURSIVE ArrayLoop(_, _, _)
RECURSIVE ObjectLoop(_, _, _)

jsonw_element(t, j) == jsonw_valuesep(t, jsonw_value(t, j).ret)

jsonw_member(t, j) == jsonw_element(t, jsonw_name(t, j))

\* for (length = 0; json = jsonw_value(NULL, json);
\*      json = jsonw_valuesep(json), length++)
\*   if (j = jsonw_endarr(json)) return *len = length, j;
\* return NULL;
\* ArrayLoop accepting the closing bracket right after a separator
ArrayLoop_TrailingComma(t, j, length) ==
  LET v == jsonw_value(t, j).ret
      e == jsonw_endarr(t, v)
      s == jsonw_valuesep(t, v)
  IN IF v = NULL THEN Fail
     ELSE IF e # NULL THEN [ret |-> e, wrote |-> TRUE, val |-> length]
     ELSE IF jsonw_endarr(t, s) # NULL
     THEN [ret |-> jsonw_endarr(t, s), wrote |-> TRUE, val |-> length + 1]
     ELSE ArrayLoop(t, s, length + 1)

ArrayLoop(t, j, length) ==
  Only({Only({IF v = NULL THEN Fail
              ELSE IF e # NULL THEN [ret |-> e, wrote |-> TRUE, val |-> length]
              ELSE ArrayLoop(t, jsonw_valuesep(t, v), length + 1)
              : e \in {jsonw_endarr(t, v)}})
        : v \in {jsonw_value(t, j).ret}})

jsonw_array(t, j) ==
  Only({Only({IF e # NULL THEN [ret |-> e, wrote |-> FALSE, val |-> 0]
              ELSE ArrayLoop(t, b, 0)
              : e \in {jsonw_endarr(t, b)}})
        : b \in {jsonw_beginarr(t, j)}})

\* for (length = 0; json = jsonw_value(NULL, jsonw_name(json));
\*      json = jsonw_valuesep(json), length++)
\*   if (j = jsonw_endobj(json)) return j;
\* return NULL;
ObjectLoop(t, j, length) ==
  Only({Only({IF v = NULL THEN Fail
              ELSE IF e # NULL THEN [ret |-> e, wrote |-> FALSE, val |-> length]
              ELSE ObjectLoop(t, jsonw_valuesep(t, v), length + 1)
              : e \in {jsonw_endobj(t, v)}})
        : v \in {jsonw_value(t, jsonw_name(t, j)).ret}})

jsonw_object(t, j) ==
  Only({Only({IF e # NULL THEN [ret |-> e, wrote |-> FALSE, val |-> 0]
              ELSE ObjectLoop(t, b, 0)
              : e \in {jsonw_endobj(t, b)}})
        : b \in {jsonw_beginobj(t, j)}})

\* (j = A(json)) && (*type = TAG) || ... : an alternative whose tag
\* assignment evaluates to zero falls through to the next alternative
jsonw_primitive(t, j) ==
  Only({IF jn # NULL THEN [ret |-> jn, wrote |-> TRUE, val |-> JSONW_NULL]
        ELSE IF jb # NULL /\ JSONW_BOOLEAN # 0
        THEN [ret |-> jb, wrote |-> TRUE, val |-> JSONW_BOOLEAN]
        ELSE IF jm # NULL /\ JSONW_NUMBER # 0
        THEN [ret |-> jm, wrote |-> TRUE, val |-> JSONW_NUMBER]
        ELSE IF js # NULL
        THEN [ret |-> js, wrote |-> TRUE, val |-> JSONW_STRING]
        ELSE Fail
        : <<jn, jb, jm, js>> \in
            {<<jsonw_null(t, j), jsonw_boolean(t, j).ret,
               jsonw_number(t, j).ret, jsonw_string(t, j).ret>>}})

jsonw_structured(t, j) ==
  Only({IF ja # NULL /\ JSONW_ARRAY # 0
        THEN [ret |-> ja, wrote |-> TRUE, val |-> JSONW_ARRAY]
        ELSE IF jo # NULL
        THEN [ret |-> jo, wrote |-> TRUE, val |-> JSONW_OBJECT]
        ELSE Fail
        : <<ja, jo>> \in {<<jsonw_array(t, j).ret, jsonw_object(t, j).ret>>}})

jsonw_value(t, j) ==
  IF j = NULL THEN Fail
  ELSE Only({IF p.ret # NULL THEN p ELSE jsonw_structured(t, j)
             : p \in {jsonw_primitive(t, j)}})

jsonw_text(t, j) ==
  Only({[ret |-> jsonw_ws(t, v.ret), wrote |-> v.wrote, val |-> v.val]
        : v \in {jsonw_value(t, jsonw_ws(t, j))}})

----------------------------------------------------------------------------
(* Utilities *)

\* *str of a literal: the byte at index i, NUL at its end
StrAt(str, i) == IF i \in 1..Len(str) THEN str[i] ELSE NUL

\* do c = '\0', json = jsonw_character(&c, json);
\* while (*str && *str == c && str++);
\* return *str - c;
RECURSIVE StrcmpLoop(_, _, _, _)
StrcmpLoop(str, i, t, j) ==
  LET r == jsonw_character(t, j)
      c == IF r.wrote THEN r.val ELSE NUL
  IN IF StrAt(str, i) # NUL /\ StrAt(str, i) = c
     THEN StrcmpLoop(str, i + 1, t, r.ret)
     ELSE StrAt(str, i) - c

jsonw_strcmp(str, t, j) == StrcmpLoop(str, 1, t, j)

RECURSIVE jsonw_index(_, _, _)

\* jsonw_index testing idx after the step: do ... while (idx--)
jsonw_index_StepFirst(idx, t, j) ==
  IF idx = 0 THEN jsonw_element(t, j)
  ELSE jsonw_index(idx - 1, t, jsonw_element(t, j))

jsonw_index(idx, t, j) ==
  IF idx = 0 THEN j ELSE jsonw_index(idx - 1, t, jsonw_element(t, j))

RECURSIVE jsonw_find(_, _, _)
jsonw_find(name, t, j) ==
  IF jsonw_strcmp(name, t, jsonw_beginstr(t, j)) = 0 THEN j
  ELSE LET m == jsonw_member(t, j)
       IN IF m # NULL THEN jsonw_find(name, t, m) ELSE NULL

\* for (char *j = json; --len && (j = jsonw_character(buf, j)); buf++)
\*   json = j;
\* mem is the caller's memory from buf on, b the index buf has reached
RECURSIVE UnescapeLoop(_, _, _, _, _, _)
UnescapeLoop(t, len, j, mem, b, written) ==
  LET r == jsonw_character(t, j)
  IN IF len - 1 = 0 \/ r.ret = NULL
     THEN [ret |-> j, mem |-> [mem EXCEPT ![b] = NUL],
           written |-> written \cup {b}]
     ELSE UnescapeLoop(t, len - 1, r.ret, [mem EXCEPT ![b] = r.val], b + 1,
                       written \cup {b})

\* jsonw_unescape testing len-- instead of --len
jsonw_unescape_PostDecrement(mem, len, t, j) ==
  UnescapeLoop(t, len + 1, j, mem, 0, {})

jsonw_unescape(mem, len, t, j) == UnescapeLoop(t, len, j, mem, 0, {})

----------------------------------------------------------------------------
(* Inputs: texts are concatenations of a bounded number of lexemes *)

SeqsUpTo(S, n) == UNION {[1..k -> S] : k \in 0..n}

RECURSIVE Flatten(_)
Flatten(ls) == IF ls = <<>> THEN <<>> ELSE Head(ls) \o Flatten(Tail(ls))

TextsOf(Lexemes, n) == {Flatten(ls) : ls \in SeqsUpTo(Lexemes, n)}

MaxMantLex == 4

MaxExpDigits == 1

\* - 0 1 5 .
MantLexemes == {<<45>>, <<48>>, <<49>>, <<53>>, <<46>>}

\* nothing, or e or E, an optional sign and digits of 0 1 2
ExpTexts ==
  {<<>>} \cup
  {m \o sg \o d : m \in {<<101>>, <<69>>}, sg \in {<<>>, <<45>>, <<43>>},
                  d \in TextsOf({<<48>>, <<49>>, <<50>>}, MaxExpDigits)}

\* 0  -3  3.5  1e2  -2.5e-1
NumExamples ==
  {<<48>>, <<45, 51>>, <<51, 46, 53>>, <<49, 101, 50>>,
   <<45, 50, 46, 53, 101, 45, 49>>}

MaxTextLex == 5

\* [ ] , 1 " "" {}
ArrayLexemes ==
  {<<91>>, <<93>>, <<44>>, <<49>>, <<34>>, <<34, 34>>, <<123, 125>>}

\* { } : , "" 1 [
ObjectLexemes ==
  {<<123>>, <<125>>, <<58>>, <<44>>, <<34, 34>>, <<49>>, <<91>>}

\* what a caller's jsonw_ty object holds before a call: no value of the enum
TypeValues == {7}

\* the caller's object after a call that returned r
Store(r, before) == IF r.wrote THEN r.val ELSE before

----------------------------------------------------------------------------
(* The JSON grammar (RFC 8259), stated on whole texts by splitting them,   *)
(* independently of the cursor-walking combinators above.                  *)

RECURSIVE TrimL(_)
TrimL(s) == IF s # <<>> /\ Head(s) \in {32, 9, 10, 13} THEN TrimL(Tail(s)) ELSE s

RECURSIVE TrimR(_)
TrimR(s) ==
  IF s # <<>> /\ s[Len(s)] \in {32, 9, 10, 13}
  THEN TrimR(SubSeq(s, 1, Len(s) - 1))
  ELSE s

Trim(s) == TrimR(TrimL(s))

AllDigits(s) == \A i \in 1..Len(s) : s[i] \in 48..57

IsIntText(s) == s = <<48>> \/ (Len(s) >= 1 /\ s[1] \in 49..57 /\ AllDigits(s))

IsFracText(s) == Len(s) >= 2 /\ s[1] = 46 /\ AllDigits(Tail(s))

IsExpText(s) ==
  /\ Len(s) >= 2
  /\ s[1] \in {101, 69}
  /\ LET r == Tail(s)
         d == IF r[1] \in {43, 45} THEN Tail(r) ELSE r
     IN Len(d) >= 1 /\ AllDigits(d)

IsNumberText(s) ==
  LET b == IF s # <<>> /\ s[1] = 45 THEN Tail(s) ELSE s
  IN \E i \in 1..Len(b) : \E k \in i..Len(b) :
       /\ IsIntText(SubSeq(b, 1, i))
       /\ (k = i \/ IsFracText(SubSeq(b, i + 1, k)))
       /\ (k = Len(b) \/ IsExpText(SubSeq(b, k + 1, Len(b))))

IsHex(c) == c \in 48..57 \/ c \in 65..70 \/ c \in 97..102

RECURSIVE IsCharsText(_)
IsCharsText(b) ==
  IF b = <<>> THEN TRUE
  ELSE IF b[1] = 92
  THEN /\ Len(b) >= 2
       /\ \/ /\ b[2] \in {34, 92, 47, 98, 102, 110, 114, 116}
             /\ IsCharsText(SubSeq(b, 3, Len(b)))
          \/ /\ b[2] = 117
             /\ Len(b) >= 6
             /\ \A i \in 3..6 : IsHex(b[i])
             /\ IsCharsText(SubSeq(b, 7, Len(b)))
  ELSE b[1] >= 32 /\ b[1] # 34 /\ IsCharsText(Tail(b))

IsStringText(s) ==
  /\ Len(s) >= 2
  /\ s[1] = 34
  /\ s[Len(s)] = 34
  /\ IsCharsText(SubSeq(s, 2, Len(s) - 1))

RECURSIVE IsValueText(_)
RECURSIVE IsElementsText(_)
RECURSIVE IsMembersText(_)

IsElementsText(s) ==
  \/ IsValueText(Trim(s))
  \/ \E k \in 1..Len(s) :
       /\ s[k] = 44
       /\ IsValueText(Trim(SubSeq(s, 1, k - 1)))
       /\ IsElementsText(SubSeq(s, k + 1, Len(s)))

IsMemberText(s) ==
  \E k \in 1..Len(s) :
    /\ s[k] = 58
    /\ IsStringText(Trim(SubSeq(s, 1, k - 1)))
    /\ IsValueText(Trim(SubSeq(s, k + 1, Len(s))))

IsMembersText(s) ==
  \/ IsMemberText(s)
  \/ \E k \in 1..Len(s) :
       /\ s[k] = 44
       /\ IsMemberText(SubSeq(s, 1, k - 1))
       /\ IsMembersText(SubSeq(s, k + 1, Len(s)))

IsArrayText(s) ==
  /\ Len(s) >= 2
  /\ s[1] = 91
  /\ s[Len(s)] = 93
  /\ LET in == SubSeq(s, 2, Len(s) - 1)
     IN Trim(in) = <<>> \/ IsElementsText(in)

IsObjectText(s) ==
  /\ Len(s) >= 2
  /\ s[1] = 123
  /\ s[Len(s)] = 125
  /\ LET in == SubSeq(s, 2, Len(s) - 1)
     IN Trim(in) = <<>> \/ IsMembersText(in)

IsValueText(s) ==
  \/ s \in {<<110, 117, 108, 108>>, <<116, 114, 117, 101>>,
            <<102, 97, 108, 115, 101>>}
  \/ IsNumberText(s)
  \/ IsStringText(s)
  \/ IsArrayText(s)
  \/ IsObjectText(s)

IsJsonText(s) == IsValueText(Trim(s))

----------------------------------------------------------------------------
(* Calls.  Every behaviour is one call: the caller holds a buffer, picks   *)
(* the arguments and an out-parameter object holding some value, and the   *)
(* call returns.                                                           *)

Cur(c) == [ret |-> c, wrote |-> FALSE, val |-> 0]

Call(name, j, a, p, r) ==
  /\ op = "none"
  /\ op' = name
  /\ json' = j
  /\ arg' = a
  /\ prev' = p
  /\ out' = Store(r, p)
  /\ ret' = r.ret
  /\ UNCHANGED text

InitCall ==
  /\ op = "none"
  /\ json = 1
  /\ arg = 0
  /\ prev = 0
  /\ out = 0
  /\ ret = NULL

Cursors(t) == 1..(Len(t) + 1)

LenValues == {0, 7}

DoubleValues == {[m |-> 7, x |-> 0, steps |-> 0]}

CharValues == {7}

----------------------------------------------------------------------------
(* Validation of a whole document (test.c): end = jsonw_text(NULL, buf) *)

\* - 0 1 . space null true
ScalarLexemes ==
  {<<45>>, <<48>>, <<49>>, <<46>>, <<32>>, <<110, 117, 108, 108>>,
   <<116, 114, 117, 101>>}

\* " a \ n u0041 TAB
StringLexemes ==
  {<<34>>, <<97>>, <<92>>, <<110>>, <<117, 48, 48, 52, 49>>, <<9>>}

\* [ ] , 1 space newline
SpacedLexemes == {<<91>>, <<93>>, <<44>>, <<49>>, <<32>>, <<10>>}

TextFamilies ==
  {ArrayLexemes, ObjectLexemes, ScalarLexemes, StringLexemes, SpacedLexemes}

InitText ==
  /\ \/ \E L \in TextFamilies : text \in TextsOf(L, MaxTextLex)
     \/ \E m \in TextsOf(MantLexemes, MaxMantLex) : \E e \in ExpTexts :
          text = m \o e
  /\ InitCall

CallText ==
  \E p \in TypeValues : Call("text", 1, 0, p, jsonw_text(text, 1))

NextText == CallText

SpecText == InitText /\ [][NextText]_vars

\* test.c: valid = end && end - buf == size
Valid == ret # NULL /\ ret = Len(text) + 1

\* C1: jsonw_text returns the end of the input exactly when the whole input
\* is one JSON value with optional surrounding whitespace
C1_TextValidIffJson == op = "text" => (Valid <=> IsJsonText(text))

\* the object {"":1} is reported valid
C1_Witness ==
  op = "text" /\ text = <<123, 34, 34, 58, 49, 125>> /\ Valid

----------------------------------------------------------------------------
(* Every grammar combinator, called at every cursor of a text *)

MaxCombLex == 3

\* 1 . e - 0 +
CombNumber == {<<49>>, <<46>>, <<101>>, <<45>>, <<48>>, <<43>>}

\* " a \ \u00 41 abc
CombString ==
  {<<34>>, <<97>>, <<92>>, <<92, 117, 48, 48>>, <<52, 49>>, <<97, 98, 99>>}

\* [ ] 1, 2 space [1,
CombArray ==
  {<<91>>, <<93>>, <<49, 44>>, <<50>>, <<32>>, <<91, 49, 44>>}

\* { } "": 1 , {"":
CombObject ==
  {<<123>>, <<125>>, <<34, 34, 58>>, <<49>>, <<44>>, <<123, 34, 34, 58>>}

\* null true false nul fals space
CombLiteral ==
  {<<110, 117, 108, 108>>, <<116, 114, 117, 101>>, <<102, 97, 108, 115, 101>>,
   <<110, 117, 108>>, <<102, 97, 108, 115>>, <<32>>}

CombFamilies == {CombNumber, CombString, CombArray, CombObject, CombLiteral}

InitComb ==
  /\ \E L \in CombFamilies : text \in TextsOf(L, MaxCombLex)
  /\ InitCall

CallWs ==
  \E j \in Cursors(text) : Call("ws", j, 0, 0, Cur(jsonw_ws(text, j)))

CallBeginarr ==
  \E j \in Cursors(text) : Call("beginarr", j, 0, 0, Cur(jsonw_beginarr(text, j)))

CallEndarr ==
  \E j \in Cursors(text) : Call("endarr", j, 0, 0, Cur(jsonw_endarr(text, j)))

CallBeginobj ==
  \E j \in Cursors(text) : Call("beginobj", j, 0, 0, Cur(jsonw_beginobj(text, j)))

CallEndobj ==
  \E j \in Cursors(text) : Call("endobj", j, 0, 0, Cur(jsonw_endobj(text, j)))

CallNamesep ==
  \E j \in Cursors(text) : Call("namesep", j, 0, 0, Cur(jsonw_namesep(text, j)))

CallValuesep ==
  \E j \in Cursors(text) : Call("valuesep", j, 0, 0, Cur(jsonw_valuesep(text, j)))

CallBeginstr ==
  \E j \in Cursors(text) : Call("beginstr", j, 0, 0, Cur(jsonw_beginstr(text, j)))

CallEndstr ==
  \E j \in Cursors(text) : Call("endstr", j, 0, 0, Cur(jsonw_endstr(text, j)))

CallNull ==
  \E j \in Cursors(text) : Call("null", j, 0, 0, Cur(jsonw_null(text, j)))

CallBoolean ==
  \E j \in Cursors(text) : \E p \in BOOLEAN :
    Call("boolean", j, 0, p, jsonw_boolean(text, j))

CallNumber ==
  \E j \in Cursors(text) : \E p \in DoubleValues :
    Call("number", j, 0, p, jsonw_number(text, j))

CallCharacter ==
  \E j \in Cursors(text) : \E p \in CharValues :
    Call("character", j, 0, p, jsonw_character(text, j))

CallString ==
  \E j \in Cursors(text) : \E p \in {7} :
    Call("string", j, 0, p, jsonw_string(text, j))

CallArray ==
  \E j \in Cursors(text) : \E p \in {7} :
    Call("array", j, 0, p, jsonw_array(text, j))

CallObject ==
  \E j \in Cursors(text) : \E p \in {7} :
    Call("object", j, 0, p, jsonw_object(text, j))

CallPrimitive ==
  \E j \in Cursors(text) : \E p \in TypeValues :
    Call("primitive", j, 0, p, jsonw_primitive(text, j))

CallStructured ==
  \E j \in Cursors(text) : \E p \in TypeValues :
    Call("structured", j, 0, p, jsonw_structured(text, j))

CallValue ==
  \E j \in Cursors(text) : \E p \in TypeValues :
    Call("value", j, 0, p, jsonw_value(text, j))

CallTextAt ==
  \E j \in Cursors(text) : \E p \in TypeValues :
    Call("text", j, 0, p, jsonw_text(text, j))

NextComb ==
  \/ CallWs
  \/ CallBeginarr
  \/ CallEndarr
  \/ CallBeginobj
  \/ CallEndobj
  \/ CallNamesep
  \/ CallValuesep
  \/ CallBeginstr
  \/ CallEndstr
  \/ CallNull
  \/ CallBoolean
  \/ CallNumber
  \/ CallCharacter
  \/ CallString
  \/ CallArray
  \/ CallObject
  \/ CallPrimitive
  \/ CallStructured
  \/ CallValue
  \/ CallTextAt

SpecComb == InitComb /\ [][NextComb]_vars

OutParamOps ==
  {"boolean", "number", "character", "string", "array", "object",
   "primitive", "structured", "value", "text"}

\* C4: a combinator that returns failure leaves the caller's out-parameter
\* object as it was before the call
C4_FailureWritesNothing ==
  (op \in OutParamOps /\ ret = NULL) => out = prev

\* jsonw_string fails on the unterminated "abc after consuming four bytes
C4_Witness ==
  /\ op = "string"
  /\ text = <<34, 97, 98, 99>>
  /\ json = 1
  /\ ret = NULL
  /\ out = 7

\* C9: a combinator called on a cursor into the text returns failure or a
\* cursor between its input cursor and the NUL terminator
C9_CursorInBounds ==
  op # "none" => (ret = NULL \/ (json <= ret /\ ret <= Len(text) + 1))

\* jsonw_character fails on a text that ends right after a backslash
C9_Witness ==
  /\ op = "character"
  /\ text = <<34, 92>>
  /\ json = 2
  /\ ret = NULL

----------------------------------------------------------------------------
(* Element and member structure of a valid array or object text, by the    *)
(* grammar                                                                 *)

\* the comma that ends the first element of a list of two or more elements
ElementSplit(s) ==
  CHOOSE k \in 1..Len(s) :
    /\ s[k] = 44
    /\ IsValueText(Trim(SubSeq(s, 1, k - 1)))
    /\ IsElementsText(SubSeq(s, k + 1, Len(s)))

RECURSIVE ElementCount(_)
ElementCount(s) ==
  IF IsValueText(Trim(s)) THEN 1
  ELSE 1 + ElementCount(SubSeq(s, ElementSplit(s) + 1, Len(s)))

\* the position in the text of the first byte of element n of the element
\* list s, which starts at position base of the text
RECURSIVE ElementStart(_, _, _)
ElementStart(s, n, base) ==
  IF n = 0 THEN base + (Len(s) - Len(TrimL(s)))
  ELSE LET k == ElementSplit(s)
       IN ElementStart(SubSeq(s, k + 1, Len(s)), n - 1, base + k)

Inner(s) == SubSeq(s, 2, Len(s) - 1)

\* the number of elements of the array text s
ArrayCount(s) == IF Trim(Inner(s)) = <<>> THEN 0 ELSE ElementCount(Inner(s))

MemberSplit(s) ==
  CHOOSE k \in 1..Len(s) :
    /\ s[k] = 44
    /\ IsMemberText(SubSeq(s, 1, k - 1))
    /\ IsMembersText(SubSeq(s, k + 1, Len(s)))

RECURSIVE MemberCount(_)
MemberCount(s) ==
  IF IsMemberText(s) THEN 1
  ELSE 1 + MemberCount(SubSeq(s, MemberSplit(s) + 1, Len(s)))

\* the number of members of the object text s
ObjectCount(s) == IF Trim(Inner(s)) = <<>> THEN 0 ELSE MemberCount(Inner(s))

\* the characters jsonw_character decodes from cursor j up to its first
\* failure: a sequence of [val, next]
RECURSIVE Decoded(_, _)
Decoded(t, j) ==
  LET r == jsonw_character(t, j)
  IN IF r.ret = NULL THEN <<>>
     ELSE <<[val |-> r.val, next |-> r.ret]>> \o Decoded(t, r.ret)

DecodedBytes(t, j) == [i \in 1..Len(Decoded(t, j)) |-> Decoded(t, j)[i].val]

\* the position of the key string of the first member of the member list s
\* (at position base of the text) whose decoded key is name; NULL if none
RECURSIVE FirstMember(_, _, _, _)
FirstMember(name, t, s, base) ==
  LET q == base + (Len(s) - Len(TrimL(s)))
      last == IsMemberText(s)
      k == IF last THEN Len(s) + 1 ELSE MemberSplit(s)
  IN IF DecodedBytes(t, q + 1) = name THEN q
     ELSE IF last THEN NULL
     ELSE FirstMember(name, t, SubSeq(s, k + 1, Len(s)), base + k)

----------------------------------------------------------------------------
(* jsonw_array and its length out-parameter *)

MaxArrLex == 7

\* [ ] , 1 space
ArrLexemes == {<<91>>, <<93>>, <<44>>, <<49>>, <<32>>}

InitArr ==
  /\ text \in TextsOf(ArrLexemes, MaxArrLex)
  /\ InitCall

CallArrayLen ==
  \E p \in LenValues : Call("array", 1, 0, p, jsonw_array(text, 1))

NextArr == CallArrayLen

SpecArr == InitArr /\ [][NextArr]_vars

\* the text the call consumed
Consumed == SubSeq(text, json, ret - 1)

\* C2: when jsonw_array succeeds, the length out-parameter holds the number
\* of elements of the array, whatever it held before
C2_ArrayLength ==
  (op = "array" /\ ret # NULL) => out = ArrayCount(Trim(Consumed))

----------------------------------------------------------------------------
(* jsonw_index on the cursor jsonw_beginarr returns *)

MaxIdx == 3

InitIndex ==
  /\ text \in TextsOf(ArrLexemes, MaxArrLex)
  /\ InitCall

CallIndex ==
  /\ jsonw_beginarr(text, 1) # NULL
  /\ \E n \in 0..MaxIdx :
       Call("index", jsonw_beginarr(text, 1), n, 0,
            Cur(jsonw_index(n, text, jsonw_beginarr(text, 1))))

NextIndex == CallIndex

SpecIndex == InitIndex /\ [][NextIndex]_vars

\* C7 as stated: the n-th element's cursor when n < k, failure when n >= k
C7_IndexAsClaimed ==
  (op = "index" /\ IsArrayText(text)) =>
    ret = IF arg < ArrayCount(text)
          THEN ElementStart(Inner(text), arg, 2)
          ELSE NULL

\* C7 amended: the n-th element's cursor when n < k, failure when n >= k and
\* n >= 1, and the input cursor itself when n = 0 (also for an empty array)
C7_Index ==
  (op = "index" /\ IsArrayText(text)) =>
    ret = IF arg < ArrayCount(text) THEN ElementStart(Inner(text), arg, 2)
          ELSE IF arg = 0 THEN json
          ELSE NULL

\* index 1 of [1, 1] is the second element, index 2 is past the end
C7_Witness ==
  /\ op = "index"
  /\ text = <<91, 49, 44, 32, 49, 93>>
  /\ arg = 1
  /\ ret = 5

----------------------------------------------------------------------------
(* jsonw_object and jsonw_find *)

MaxObjLex == 5

\* { } , space "a":1 "b":1 "":1 "a":{"b":1} "aé":1
ObjLexemes ==
  {<<123>>, <<125>>, <<44>>, <<32>>,
   <<34, 97, 34, 58, 49>>, <<34, 98, 34, 58, 49>>, <<34, 34, 58, 49>>,
   <<34, 97, 34, 58, 123, 34, 98, 34, 58, 49, 125>>,
   <<34, 97, 92, 117, 48, 48, 101, 57, 34, 58, 49>>}

Keys == {<<>>, <<97>>, <<98>>}

InitObj ==
  /\ text \in TextsOf(ObjLexemes, MaxObjLex)
  /\ InitCall

CallObjectLen ==
  \E p \in LenValues : Call("object", 1, 0, p, jsonw_object(text, 1))

CallFind ==
  /\ jsonw_beginobj(text, 1) # NULL
  /\ \E name \in Keys :
       Call("find", jsonw_beginobj(text, 1), name, 0,
            Cur(jsonw_find(name, text, jsonw_beginobj(text, 1))))

NextObj == CallObjectLen \/ CallFind

SpecObj == InitObj /\ [][NextObj]_vars

\* C3: when jsonw_object succeeds, the length out-parameter holds the number
\* of members of the object, whatever it held before
C3_ObjectLength ==
  (op = "object" /\ ret # NULL) => out = ObjectCount(Trim(Consumed))

\* C5: on a valid object, jsonw_find returns the key string of the first
\* top-level member whose decoded key is the name, and failure if there is
\* none
C5_FindFirstMember ==
  (op = "find" /\ IsObjectText(text)) =>
    ret = IF Trim(Inner(text)) = <<>> THEN NULL
          ELSE FirstMember(arg, text, Inner(text), 2)

----------------------------------------------------------------------------
(* jsonw_strcmp on a string body *)

MaxStrLex == 4

MaxKeyLen == 2

\* a b " \n é a \
StrLexemes ==
  {<<97>>, <<98>>, <<34>>, <<92, 110>>, <<92, 117, 48, 48, 101, 57>>,
   <<92, 117, 48, 48, 54, 49>>, <<92>>}

\* a b newline
Literals == SeqsUpTo({97, 98, 10}, MaxKeyLen)

InitStrcmp ==
  /\ text \in TextsOf(StrLexemes, MaxStrLex)
  /\ InitCall

CallStrcmp ==
  \E str \in Literals :
    Call("strcmp", 1, str, 0, Cur(jsonw_strcmp(str, text, 1)))

NextStrcmp == CallStrcmp

SpecStrcmp == InitStrcmp /\ [][NextStrcmp]_vars

\* the text from the cursor on is the body of a JSON string and its closing
\* quote
AtStringBody(t) ==
  \E q \in 1..Len(t) : t[q] = 34 /\ IsCharsText(SubSeq(t, 1, q - 1))

\* C6: jsonw_strcmp returns 0 exactly when the decoded characters of the
\* string are the literal, character by character
C6_StrcmpEqualIffSame ==
  (op = "strcmp" /\ AtStringBody(text)) =>
    (ret = 0 <=> DecodedBytes(text, 1) = arg)

----------------------------------------------------------------------------
(* jsonw_unescape into a caller's buffer *)

MaxUnLex == 5

MaxCap == 3

\* a b " \n é \
UnLexemes ==
  {<<97>>, <<98>>, <<34>>, <<92, 110>>, <<92, 117, 48, 48, 101, 57>>, <<92>>}

\* the caller's memory from buf on: the buffer is indices 0..capacity-1 and
\* the bytes after it belong to other objects
Memory == [i \in 0..(MaxCap + 1) |-> 7]

InitUnescape ==
  /\ text \in TextsOf(UnLexemes, MaxUnLex)
  /\ InitCall

CallUnescape ==
  \E cap \in 1..MaxCap :
    LET r == jsonw_unescape(Memory, cap, text, 1)
    IN /\ op = "none"
       /\ op' = "unescape"
       /\ json' = 1
       /\ arg' = cap
       /\ prev' = Memory
       /\ out' = [mem |-> r.mem, written |-> r.written]
       /\ ret' = r.ret
       /\ UNCHANGED text

NextUnescape == CallUnescape

SpecUnescape == InitUnescape /\ [][NextUnescape]_vars

Min(a, b) == IF a <= b THEN a ELSE b

\* C8: jsonw_unescape writes the first m = min(n, capacity - 1) decoded
\* bytes and the terminator after them, nothing else, and returns the cursor
\* after the m-th character
C8_Unescape ==
  op = "unescape" =>
    LET d == Decoded(text, json)
        m == Min(Len(d), arg - 1)
    IN /\ \A i \in 0..(m - 1) : out.mem[i] = d[i + 1].val
       /\ out.mem[m] = NUL
       /\ out.written = 0..m
       /\ \A i \in DOMAIN prev : i > m => out.mem[i] = prev[i]
       /\ \A i \in out.written : i < arg
       /\ ret = IF m = 0 THEN json ELSE d[m].next

\* capacity 3 on the five characters ab\nab: two bytes and the terminator
C8_Witness ==
  /\ op = "unescape"
  /\ text = <<97, 98, 92, 110, 97, 98>>
  /\ arg = 3
  /\ out.mem = [i \in 0..(MaxCap + 1) |-> IF i = 0 THEN 97 ELSE IF i = 1 THEN 98
                                       ELSE IF i = 2 THEN 0 ELSE 7]
  /\ ret = 3

----------------------------------------------------------------------------
(* jsonw_number and the value it decodes *)

InitNum ==
  /\ \/ \E m \in TextsOf(MantLexemes, MaxMantLex) : \E e \in ExpTexts :
          text = m \o e
     \/ text \in NumExamples
  /\ InitCall

CallNumberStart ==
  \E p \in DoubleValues : Call("number", 1, 0, p, jsonw_number(text, 1))

NextNum == CallNumberStart

SpecNum == InitNum /\ [][NextNum]_vars

\* the decimal m * 10^x without trailing zeros in m
RECURSIVE Norm(_, _)
Norm(m, x) ==
  IF m = 0 THEN <<0, 0>>
  ELSE IF m % 10 = 0 THEN Norm(m \div 10, x + 1)
  ELSE <<m, x>>

\* the integer the digits of s write, other bytes skipped
RECURSIVE DigitsValue(_, _)
DigitsValue(s, acc) ==
  IF s = <<>> THEN acc
  ELSE IF Head(s) \in 48..57 THEN DigitsValue(Tail(s), acc * 10 + (Head(s) - 48))
  ELSE DigitsValue(Tail(s), acc)

\* the first position of s holding a byte of C, 0 if none
PosOf(s, C) ==
  IF \E i \in 1..Len(s) : s[i] \in C
  THEN CHOOSE i \in 1..Len(s) : s[i] \in C /\ \A k \in 1..(i - 1) : s[k] \notin C
  ELSE 0

\* the parts of a number literal: sign, significand, shift, exponent
NumberParts(s) ==
  LET e == PosOf(s, {101, 69})
      mant == IF e = 0 THEN s ELSE SubSeq(s, 1, e - 1)
      expo == IF e = 0 THEN <<>> ELSE SubSeq(s, e + 1, Len(s))
      dot == PosOf(mant, {46})
  IN [sign |-> IF s[1] = 45 THEN -1 ELSE 1,
      significand |-> DigitsValue(mant, 0),
      shift |-> IF dot = 0 THEN 0 ELSE Len(mant) - dot,
      exponent |-> IF expo # <<>> /\ expo[1] = 45
                   THEN -DigitsValue(expo, 0)
                   ELSE DigitsValue(expo, 0)]

Short == -32768..32767

Abs(n) == IF n < 0 THEN -n ELSE n

NumberIs(t, m, x) ==
  (op = "number" /\ json = 1 /\ text = t) =>
    (ret = Len(t) + 1 /\ Norm(out.m, out.x) = Norm(m, x))

====
